---- MODULE Spec2Model ----
(***************************************************************************)
(* teleinfo2mqtt-rs: the Teleinfo decoding pipeline.                       *)
(*                                                                         *)
(*   serial_stream -> ascii_to_frames -> frame_to_teleinfo -> main loop    *)
(*                                                                         *)
(* Text is modelled as sequences of byte values (the protocol is 7-bit     *)
(* ASCII, so one byte is one character); a byte >= 128 stands for a chunk  *)
(* that std::str::from_utf8 rejects.                                       *)
(***************************************************************************)
EXTENDS Integers, Sequences, FiniteSets, TLC

\* ------------------------------------------------------------------------
\* Bytes with a meaning in the code
\* ------------------------------------------------------------------------
TAB == 9
LF == 10
CR == 13
SP == 32
STX == 2
ETX == 3
ChecksumMask == 63
ChecksumBase == 32
U8 == 256
AsciiLimit == 128
WindowChunks == 4

\* char::is_whitespace restricted to ASCII (str::trim, str::split_whitespace)
Whitespace == {9, 10, 11, 12, 13, 32}

\* the ten labels, in the order the fields of TeleinfoFrame are built
L_ADCO == <<65, 68, 67, 79>>
L_OPTARIF == <<79, 80, 84, 65, 82, 73, 70>>
L_ISOUSC == <<73, 83, 79, 85, 83, 67>>
L_BASE == <<66, 65, 83, 69>>
L_PTEC == <<80, 84, 69, 67>>
L_IINST == <<73, 73, 78, 83, 84>>
L_IMAX == <<73, 77, 65, 88>>
L_PAPP == <<80, 65, 80, 80>>
L_HHPHC == <<72, 72, 80, 72, 67>>
L_MOTDETAT == <<77, 79, 84, 68, 69, 84, 65, 84>>

Labels ==
  << L_ADCO, L_OPTARIF, L_ISOUSC, L_BASE, L_PTEC,
     L_IINST, L_IMAX, L_PAPP, L_HHPHC, L_MOTDETAT >>

\* ------------------------------------------------------------------------
\* TeleinfoFrame and the result of parse_teleinfo
\* ------------------------------------------------------------------------
\* placeholder carried by an Err result, so that results have one shape
NoFrame ==
  [ adco |-> <<>>, optarif |-> <<>>, isousc |-> <<>>, base |-> <<>>,
    ptec |-> <<>>, iinst |-> <<>>, imax |-> <<>>, papp |-> <<>>,
    hhphc |-> <<>>, motdetat |-> <<>> ]

NoError == [msg |-> "", arg |-> <<>>]

Ok(frame) == [ok |-> TRUE, frame |-> frame, err |-> NoError]

\* Box<dyn Error> built from a message: the fixed text and the text appended
Err(msg, arg) == [ok |-> FALSE, frame |-> NoFrame, err |-> [msg |-> msg, arg |-> arg]]

\* ------------------------------------------------------------------------
\* validate_checksum
\* ------------------------------------------------------------------------
\* rposition written as position: the first separator is taken
position(bytes, i) ==
  LET seps == { p \in 1..i : bytes[p] = SP \/ bytes[p] = TAB } IN
    IF seps = {} THEN 0 ELSE CHOOSE p \in seps : \A q \in seps : p <= q

RECURSIVE rposition(_, _)
\* bytes.iter().rposition(|b| b == ' ' || b == '\t'), scanning from index i
\* down; 0 stands for None (indices are 1-based here)
rposition(bytes, i) ==
  IF i = 0 THEN 0
  ELSE IF bytes[i] = SP \/ bytes[i] = TAB THEN i
  ELSE rposition(bytes, i - 1)

RECURSIVE byte_sum(_, _)
\* bytes[..n].iter().map(|b| b as u32).sum(); a u32 cannot wrap on the
\* lines of the model (it takes more than sixteen million bytes)
byte_sum(bytes, n) ==
  IF n = 0 THEN 0 ELSE byte_sum(bytes, n - 1) + bytes[n]

validate_checksum(line) ==
  IF Len(line) = 0 THEN FALSE
  ELSE LET last_sep_pos == rposition(line, Len(line)) IN
    IF last_sep_pos = 0 THEN FALSE
    ELSE IF last_sep_pos >= Len(line) THEN FALSE
    ELSE LET expected_checksum == line[last_sep_pos + 1]
             sum == byte_sum(line, last_sep_pos - 1)
             calculated_checksum == ((sum % (ChecksumMask + 1)) + ChecksumBase) % U8
         IN expected_checksum = calculated_checksum

\* ------------------------------------------------------------------------
\* str::lines, str::trim, str::split_whitespace
\* ------------------------------------------------------------------------
RECURSIVE find_byte(_, _, _)
\* index of the first b at or after i, 0 when there is none
find_byte(s, b, i) ==
  IF i > Len(s) THEN 0
  ELSE IF s[i] = b THEN i
  ELSE find_byte(s, b, i + 1)

\* a line ended by "\n" loses one "\r" before it
strip_cr(s) ==
  IF Len(s) > 0 /\ s[Len(s)] = CR THEN SubSeq(s, 1, Len(s) - 1) ELSE s

RECURSIVE lines_from(_, _)
\* the lines of s from index i on
lines_from(s, i) ==
  IF i > Len(s) THEN <<>>
  ELSE LET n == find_byte(s, LF, i) IN
    IF n = 0 THEN <<SubSeq(s, i, Len(s))>>
    ELSE <<strip_cr(SubSeq(s, i, n - 1))>> \o lines_from(s, n + 1)

\* str::lines: split at "\n", no empty last line after a final "\n"
lines(s) == lines_from(s, 1)

RECURSIVE trim_start(_)
trim_start(s) ==
  IF Len(s) > 0 /\ s[1] \in Whitespace THEN trim_start(Tail(s)) ELSE s

RECURSIVE trim_end(_)
trim_end(s) ==
  IF Len(s) > 0 /\ s[Len(s)] \in Whitespace
  THEN trim_end(SubSeq(s, 1, Len(s) - 1)) ELSE s

trim(s) == trim_end(trim_start(s))

RECURSIVE token_end(_, _)
\* index of the last byte of the token that starts at i
token_end(s, i) ==
  IF i < Len(s) /\ s[i + 1] \notin Whitespace THEN token_end(s, i + 1) ELSE i

RECURSIVE split_whitespace(_)
split_whitespace(s) ==
  LET t == trim_start(s) IN
    IF Len(t) = 0 THEN <<>>
    ELSE LET e == token_end(t, 1) IN
      <<SubSeq(t, 1, e)>> \o split_whitespace(SubSeq(t, e + 1, Len(t)))

\* ------------------------------------------------------------------------
\* parse_teleinfo
\* ------------------------------------------------------------------------
\* the HashMap is kept as the list of the (key, value) pairs inserted, the
\* latest last: HashMap::new, insert, contains and get
EmptyMap == <<>>

map_insert(m, key, value) == Append(m, <<key, value>>)

map_has(m, key) == \E j \in 1..Len(m) : m[j][1] = key

\* a map whose insert keeps the value the key already has
map_get_first(m, key) ==
  LET j == CHOOSE x \in 1..Len(m) :
             m[x][1] = key /\ \A y \in 1..(x - 1) : m[y][1] # key
  IN m[j][2]

\* the value of the latest insert of the key
map_get(m, key) ==
  LET j == CHOOSE x \in 1..Len(m) :
             m[x][1] = key /\ \A y \in (x + 1)..Len(m) : m[y][1] # key
  IN m[j][2]

RECURSIVE parse_lines_unchecked(_, _, _)
\* parse_lines without the call of validate_checksum
parse_lines_unchecked(ls, i, m) ==
  IF i > Len(ls) THEN <<NoError, m>>
  ELSE LET trimmed == trim(ls[i]) IN
    IF Len(trimmed) = 0 THEN parse_lines_unchecked(ls, i + 1, m)
    ELSE IF trimmed[1] = STX \/ trimmed[1] = ETX THEN parse_lines_unchecked(ls, i + 1, m)
    ELSE LET split == split_whitespace(trimmed) IN
      IF Len(split) < 1 THEN <<[msg |-> "Missing key", arg |-> <<>>], m>>
      ELSE IF Len(split) < 2 THEN <<[msg |-> "Missing value", arg |-> <<>>], m>>
      ELSE parse_lines_unchecked(ls, i + 1, map_insert(m, split[1], split[2]))

RECURSIVE parse_lines_lenient(_, _, _)
\* parse_lines with `continue` in place of the return on a failed checksum
parse_lines_lenient(ls, i, m) ==
  IF i > Len(ls) THEN <<NoError, m>>
  ELSE LET trimmed == trim(ls[i]) IN
    IF Len(trimmed) = 0 THEN parse_lines_lenient(ls, i + 1, m)
    ELSE IF trimmed[1] = STX \/ trimmed[1] = ETX THEN parse_lines_lenient(ls, i + 1, m)
    ELSE IF ~validate_checksum(trimmed) THEN parse_lines_lenient(ls, i + 1, m)
    ELSE LET split == split_whitespace(trimmed) IN
      IF Len(split) < 1 THEN <<[msg |-> "Missing key", arg |-> <<>>], m>>
      ELSE IF Len(split) < 2 THEN <<[msg |-> "Missing value", arg |-> <<>>], m>>
      ELSE parse_lines_lenient(ls, i + 1, map_insert(m, split[1], split[2]))

RECURSIVE parse_lines(_, _, _)
\* the for loop over teleinfo.lines(): <<the error returned, the map>>
parse_lines(ls, i, m) ==
  IF i > Len(ls) THEN <<NoError, m>>
  ELSE LET trimmed == trim(ls[i]) IN
    IF Len(trimmed) = 0 THEN parse_lines(ls, i + 1, m)
    ELSE IF trimmed[1] = STX \/ trimmed[1] = ETX THEN parse_lines(ls, i + 1, m)
    ELSE IF ~validate_checksum(trimmed)
      THEN <<[msg |-> "Invalid checksum for line: ", arg |-> trimmed], m>>
    ELSE LET split == split_whitespace(trimmed) IN
      IF Len(split) < 1 THEN <<[msg |-> "Missing key", arg |-> <<>>], m>>
      ELSE IF Len(split) < 2 THEN <<[msg |-> "Missing value", arg |-> <<>>], m>>
      ELSE parse_lines(ls, i + 1, map_insert(m, split[1], split[2]))

\* the struct literal of the Ok branch, every label being in the map
TeleinfoFrame(m) ==
  [ adco |-> map_get(m, L_ADCO), optarif |-> map_get(m, L_OPTARIF),
    isousc |-> map_get(m, L_ISOUSC), base |-> map_get(m, L_BASE),
    ptec |-> map_get(m, L_PTEC), iinst |-> map_get(m, L_IINST),
    imax |-> map_get(m, L_IMAX), papp |-> map_get(m, L_PAPP),
    hhphc |-> map_get(m, L_HHPHC), motdetat |-> map_get(m, L_MOTDETAT) ]

RECURSIVE first_missing(_, _)
\* the first label, in field order, that teleinfo_map.get() does not find;
\* 0 when all ten are there
first_missing(m, i) ==
  IF i > Len(Labels) THEN 0
  ELSE IF ~map_has(m, Labels[i]) THEN i
  ELSE first_missing(m, i + 1)

\* build_frame with the message of the first field in every ok_or
build_frame_adco(m) ==
  LET i == first_missing(m, 1) IN
    IF i = 0 THEN Ok(TeleinfoFrame(m)) ELSE Err("Missing ", Labels[1])

build_frame(m) ==
  LET i == first_missing(m, 1) IN
    IF i = 0 THEN Ok(TeleinfoFrame(m)) ELSE Err("Missing ", Labels[i])

parse_teleinfo(teleinfo) ==
  LET r == parse_lines(lines(teleinfo), 1, EmptyMap) IN
    IF r[1] # NoError THEN Err(r[1].msg, r[1].arg) ELSE build_frame(r[2])

\* ------------------------------------------------------------------------
\* impl Display for TeleinfoFrame: what makes to_string() panic
\* ------------------------------------------------------------------------
Digits == 48..57
PLUS == 43
MINUS == 45
\* decimal digits of i64::MAX, |i64::MIN|, i32::MAX and |i32::MIN|
I64MaxDigits == <<57,50,50,51,51,55,50,48,51,54,56,53,52,55,55,53,56,48,55>>
I64MinDigits == <<57,50,50,51,51,55,50,48,51,54,56,53,52,55,55,53,56,48,56>>
I32MaxDigits == <<50,49,52,55,52,56,51,54,52,55>>
I32MinDigits == <<50,49,52,55,52,56,51,54,52,56>>

RECURSIVE strip_zeros(_)
strip_zeros(d) ==
  IF Len(d) > 1 /\ d[1] = 48 THEN strip_zeros(Tail(d)) ELSE d

RECURSIVE digits_le(_, _, _)
\* d <= bound for two digit strings of the same length, compared from index i
digits_le(d, bound, i) ==
  IF i > Len(d) THEN TRUE
  ELSE IF d[i] < bound[i] THEN TRUE
  ELSE IF d[i] > bound[i] THEN FALSE
  ELSE digits_le(d, bound, i + 1)

magnitude_fits(d, bound) ==
  LET z == strip_zeros(d) IN
    \/ Len(z) < Len(bound)
    \/ Len(z) = Len(bound) /\ digits_le(z, bound, 1)

\* str::parse::<iN>() is Ok: an optional sign, at least one digit, only
\* digits, and a value inside the type's range
parse_int_ok(s, maxd, mind) ==
  LET neg == Len(s) > 0 /\ s[1] = MINUS
      signed == Len(s) > 0 /\ (s[1] = MINUS \/ s[1] = PLUS)
      d == IF signed THEN Tail(s) ELSE s
  IN /\ Len(d) > 0
     /\ \A k \in 1..Len(d) : d[k] \in Digits
     /\ magnitude_fits(d, IF neg THEN mind ELSE maxd)

\* every unwrap() and the slice &self.ptec[0..2] of fmt() succeed
display_ok(f) ==
  /\ parse_int_ok(f.adco, I64MaxDigits, I64MinDigits)
  /\ parse_int_ok(f.isousc, I32MaxDigits, I32MinDigits)
  /\ parse_int_ok(f.base, I64MaxDigits, I64MinDigits)
  /\ Len(f.ptec) >= 2
  /\ parse_int_ok(f.iinst, I32MaxDigits, I32MinDigits)
  /\ parse_int_ok(f.imax, I32MaxDigits, I32MinDigits)
  /\ parse_int_ok(f.papp, I32MaxDigits, I32MinDigits)

\* the field written as it is in place of the integer parsed
int_to_string_raw(s) == s

\* the text `{}` writes for the integer s.parse() returned: no plus sign, no
\* leading zeros, no minus sign on zero
int_to_string(s) ==
  LET neg == s[1] = MINUS
      signed == s[1] = MINUS \/ s[1] = PLUS
      z == strip_zeros(IF signed THEN Tail(s) ELSE s)
  IN IF neg /\ z # <<48>> THEN <<MINUS>> \o z ELSE z

\* one line of the format string: "KEY": {"raw": "<raw>", "value": <value>},
\* the value written between quotes or bare
Entry(key, raw, value, quoted) ==
  [key |-> key, raw |-> raw, value |-> value, quoted |-> quoted]

\* fmt(): the lines written, in the order of the format string, or the panic
\* of an unwrap() or of the slice
fmt(f) ==
  IF ~display_ok(f) THEN [ok |-> FALSE, entries |-> <<>>]
  ELSE [ok |-> TRUE,
        entries |->
          << Entry(L_ADCO, f.adco, int_to_string(f.adco), FALSE),
             Entry(L_OPTARIF, f.optarif, f.optarif, TRUE),
             Entry(L_ISOUSC, f.isousc, int_to_string(f.isousc), FALSE),
             Entry(L_BASE, f.base, int_to_string(f.base), FALSE),
             Entry(L_PTEC, f.ptec, SubSeq(f.ptec, 1, 2), TRUE),
             Entry(L_IINST, f.iinst, int_to_string(f.iinst), FALSE),
             Entry(L_IMAX, f.imax, int_to_string(f.imax), FALSE),
             Entry(L_PAPP, f.papp, int_to_string(f.papp), FALSE),
             Entry(L_HHPHC, f.hhphc, f.hhphc, TRUE) >>]

\* ------------------------------------------------------------------------
\* ascii_to_frames: what one chunk does to teleinfo_buffer
\* ------------------------------------------------------------------------
RECURSIVE join(_)
\* [String].join("")
join(chunks) ==
  IF Len(chunks) = 0 THEN <<>> ELSE Head(chunks) \o join(Tail(chunks))

\* std::str::from_utf8(&value).is_ok(), for the bytes of the model
from_utf8_ok(value) == \A k \in 1..Len(value) : value[k] < AsciiLimit

\* teleinfo_buffer[teleinfo_buffer.len()-4..]
last_chunks(buf) == SubSeq(buf, Len(buf) - WindowChunks + 1, Len(buf))

\* teleinfo_buffer[..teleinfo_buffer.len()-4]
older_chunks(buf) == SubSeq(buf, 1, Len(buf) - WindowChunks)

\* .chars().skip(i).take(4).collect::<String>()  (i counted from 0)
skip_take(s, i) ==
  SubSeq(s, i + 1, IF i + 4 <= Len(s) THEN i + 4 ELSE Len(s))

\* the counters i >= from at which the test of the for loop holds: the
\* character of the iterated string is 'A' and the four characters of the
\* window from i on are "ADCO"
adco_hits(buf, chars, from) ==
  LET window == join(last_chunks(buf)) IN
    { i \in from..(Len(chars) - 1) :
        chars[i + 1] = 65 /\ skip_take(window, i) = L_ADCO }

\* scan_window emptying the buffer once the frame is yielded
scan_window_clear(buf, chars, i, out) ==
  LET hits == adco_hits(buf, chars, i) IN
    IF hits = {} THEN [buffer |-> buf, out |-> out]
    ELSE [buffer |-> <<>>, out |-> Append(out, join(older_chunks(buf)))]

RECURSIVE scan_window(_, _, _, _)
\* the for loop over the characters of the last four chunks: chars is the
\* string the loop iterates (taken when the loop starts), i the counter,
\* out the frames yielded so far.  An iteration whose test fails only
\* increments i, so the loop is followed from one hit to the next.
scan_window(buf, chars, i, out) ==
  LET hits == adco_hits(buf, chars, i) IN
    IF hits = {} THEN [buffer |-> buf, out |-> out]
    ELSE LET h == CHOOSE x \in hits : \A y \in hits : x <= y IN
      scan_window(last_chunks(buf), chars, h + 1,
                  Append(out, join(older_chunks(buf))))

\* the body of the loop with String::from_utf8_lossy in place of the match
ascii_to_frames_chunk_lossy(buf, value) ==
  LET r == IF Len(buf) >= WindowChunks
           THEN scan_window(buf, join(last_chunks(buf)), 0, <<>>)
           ELSE [buffer |-> buf, out |-> <<>>]
  IN [buffer |-> Append(r.buffer, value), out |-> r.out]

\* the body of `while let Some(value)`: the new buffer and the frames yielded
ascii_to_frames_chunk(buf, value) ==
  IF ~from_utf8_ok(value) THEN [buffer |-> buf, out |-> <<>>]
  ELSE LET r == IF Len(buf) >= WindowChunks
                THEN scan_window(buf, join(last_chunks(buf)), 0, <<>>)
                ELSE [buffer |-> buf, out |-> <<>>]
       IN [buffer |-> Append(r.buffer, value), out |-> r.out]

RECURSIVE ascii_to_frames_all(_, _, _)
\* ascii_to_frames collected over a finite stream of chunks
ascii_to_frames_all(buf, chunks, out) ==
  IF Len(chunks) = 0 THEN out
  ELSE LET r == ascii_to_frames_chunk(buf, Head(chunks)) IN
    ascii_to_frames_all(r.buffer, Tail(chunks), out \o r.out)

\* ------------------------------------------------------------------------
\* The meter: data-set lines as the protocol sends them
\* ------------------------------------------------------------------------
\* Checksum = (S1 & 0x3F) + 0x20, S1 the sum of the bytes of LABEL<sep>VALUE
RECURSIVE span_sum(_)
span_sum(span) == IF Len(span) = 0 THEN 0 ELSE Head(span) + span_sum(Tail(span))

teleinfo_checksum(span) == (span_sum(span) % 64) + 32

\* LABEL<sep>VALUE<sep>CHECKSUM
data_line(label, sep, value) ==
  label \o <<sep>> \o value \o <<sep, teleinfo_checksum(label \o <<sep>> \o value)>>

\* the values of the sample frame of the tests
SampleValues ==
  << <<48, 49, 50, 51, 52, 53, 54, 55, 56, 57, 48, 49>>,
     <<66, 65, 83, 69>>,
     <<51, 48>>,
     <<48, 48, 50, 56, 48, 57, 55, 49, 56>>,
     <<84, 72, 46, 46>>,
     <<48, 48, 50>>,
     <<48, 57, 48>>,
     <<48, 48, 51, 57, 48>>,
     <<65>>,
     <<48, 48, 48, 48, 48, 48>> >>

\* for each label a value whose line has the checksum byte 0x20
SpaceChecksumValues ==
  << <<73>>, <<75>>, <<74>>, <<69>>, <<52>>,
     <<49, 48, 56>>, <<49>>, <<54, 57>>, <<53>>, <<49, 48, 48, 52, 57>> >>

\* the byte 'X', written in place of a checksum to corrupt a line
WrongChecksum == 88

\* the byte 'B', the checksum the frame format comment and the tests of
\* frame_to_teleinfo write on the ADCO line
CommentChecksum == 66

\* for each label a second value, for a frame that gives the label twice
AltValues ==
  << <<49>>,
     <<72, 67, 46, 46>>,
     <<52, 53>>,
     <<49>>,
     <<72, 67, 46, 46>>,
     <<48, 48, 51>>,
     <<48, 54, 48>>,
     <<48, 48, 52, 48, 48>>,
     <<67>>,
     <<48, 48, 48, 48, 48, 49>> >>

\* a data set of the protocol that is not one of the ten: HCHC 000
L_HCHC == <<72, 67, 72, 67>>
ExtraValue == <<48, 48, 48>>

\* how line k of a frame is written
Variants == {"good", "tab", "space", "bad", "absent", "blank", "stx", "B"}

frame_line(k, variant) ==
  CASE variant = "good" -> <<data_line(Labels[k], SP, SampleValues[k])>>
    [] variant = "tab" -> <<data_line(Labels[k], TAB, SampleValues[k])>>
    [] variant = "space" -> <<data_line(Labels[k], SP, SpaceChecksumValues[k])>>
    [] variant = "bad" ->
         <<Labels[k] \o <<SP>> \o SampleValues[k] \o <<SP, WrongChecksum>>>>
    [] variant = "B" ->
         <<Labels[k] \o <<SP>> \o SampleValues[k] \o <<SP, CommentChecksum>>>>
    [] variant = "absent" -> <<>>
    [] variant = "dup" ->
         <<data_line(Labels[k], SP, SampleValues[k]),
           data_line(Labels[k], SP, AltValues[k])>>
    [] variant = "dup_first" ->
         <<data_line(Labels[k], SP, AltValues[k]),
           data_line(Labels[k], SP, SampleValues[k])>>
    [] variant = "redo" ->
         <<data_line(Labels[k], SP, SampleValues[k]),
           data_line(L_ADCO, SP, AltValues[1])>>
    [] variant = "extra" ->
         <<data_line(Labels[k], SP, SampleValues[k]),
           data_line(L_HCHC, TAB, ExtraValue)>>
    [] variant = "blank" -> <<data_line(Labels[k], SP, SampleValues[k]), <<SP>>>>
    [] variant = "stx" -> <<<<STX>>, data_line(Labels[k], SP, SampleValues[k])>>

RECURSIVE frame_lines(_, _)
frame_lines(p, k) ==
  IF k > Len(Labels) THEN <<>> ELSE frame_line(k, p[k]) \o frame_lines(p, k + 1)

RECURSIVE join_lines(_, _)
\* the lines separated by the line ending e
join_lines(ls, e) ==
  IF Len(ls) = 0 THEN <<>>
  ELSE IF Len(ls) = 1 THEN ls[1]
  ELSE ls[1] \o e \o join_lines(Tail(ls), e)

frame_text(p, e) == join_lines(frame_lines(p, 1), e)

GoodPlan == [k \in 1..Len(Labels) |-> "good"]

\* ------------------------------------------------------------------------
\* Bounds and input sets
\* ------------------------------------------------------------------------
\* chunks the byte source delivers in one run
MaxChunks == 7
\* lines of the sample frame followed by a repeated or unknown label
MaxDup == 2
\* sensors in the list publish_discovery goes through
MaxSensors == 2
\* Readings the main loop pulls in one run of the loop on its own
MaxPulled == 3
\* times the byte source delivers any one chunk other than the sample frame
MaxFaults == 1
\* length of the lines given to validate_checksum
MaxLineLen == 5
\* lines of the sample frame written otherwise than "good"
MaxAltered == 2
\* length of the text between STX and ETX
MaxWireLen == 5
\* calls of uart_device.read in one run of serial_stream
MaxReads == 4
\* chunks of one or two characters given to ascii_to_frames
MaxFeeds == 6

SampleFrame == frame_text(GoodPlan, <<LF>>) \o <<LF>>
\* the sample frame as the meter sends it, between STX and ETX, with the
\* checksum of its ADCO line corrupted
BadChecksumFrame ==
  <<STX, LF>> \o frame_text([GoodPlan EXCEPT ![1] = "bad"], <<CR, LF>>) \o <<CR, ETX>>
\* a frame every line of which is valid, with an ADCO that is no number ("ABC")
NonNumericFrame ==
  data_line(L_ADCO, SP, <<65, 66, 67>>) \o <<LF>>
    \o frame_text([GoodPlan EXCEPT ![1] = "absent"], <<LF>>) \o <<LF>>
\* a chunk that is not UTF-8
InvalidChunk == <<255>>

\* what the byte source may yield: whole frames in one chunk and a chunk
\* that is not text
Chunks == { SampleFrame, BadChecksumFrame, NonNumericFrame, InvalidChunk }

LineAlphabet == {TAB, SP, 33, 34, 65}

BoundedSeqs(alphabet, n) == UNION {[1..k -> alphabet] : k \in 0..n}

RECURSIVE PlansUpTo(_)
\* the plans that differ from GoodPlan in at most n lines
PlansUpTo(n) ==
  IF n = 0 THEN {GoodPlan}
  ELSE LET P == PlansUpTo(n - 1) IN
    P \cup {[p EXCEPT ![k] = v] : p \in P, k \in 1..Len(Labels), v \in Variants}

\* the ways a line is written in a frame with repeated and unknown labels
DupVariants == {"tab", "dup", "dup_first", "redo", "extra"}

RECURSIVE DupPlansUpTo(_)
\* the plans that differ from GoodPlan in at most n lines, by DupVariants
DupPlansUpTo(n) ==
  IF n = 0 THEN {GoodPlan}
  ELSE LET P == DupPlansUpTo(n - 1) IN
    P \cup {[p EXCEPT ![k] = v] : p \in P, k \in 1..Len(Labels), v \in DupVariants}

LineEndings == {<<LF>>, <<CR, LF>>}

WireAlphabet == {65, 68, 67, 79, SP}

\* the Reading of the sample frame
SampleReading ==
  [ adco |-> SampleValues[1], optarif |-> SampleValues[2],
    isousc |-> SampleValues[3], base |-> SampleValues[4],
    ptec |-> SampleValues[5], iinst |-> SampleValues[6],
    imax |-> SampleValues[7], papp |-> SampleValues[8],
    hhphc |-> SampleValues[9], motdetat |-> SampleValues[10] ]

\* "012345678901", "0", "+7", "-0", "-012", "ABC", "-" and i64::MAX + 1
AdcoValues ==
  { SampleValues[1], <<48>>, <<PLUS, 55>>, <<MINUS, 48>>, <<MINUS, 48, 49, 50>>,
    <<65, 66, 67>>, <<MINUS>>, I64MinDigits }

\* "TH..", "HC", "T"
PtecValues == { SampleValues[5], <<72, 67>>, <<84>> }

\* "00390", "-5", "1e3" and i32::MAX + 1
PappValues == { SampleValues[8], <<MINUS, 53>>, <<49, 101, 51>>, I32MinDigits }

\* the Readings given to to_string()
Readings ==
  { [SampleReading EXCEPT !.adco = a, !.ptec = p, !.papp = q] :
      a \in AdcoValues, p \in PtecValues, q \in PappValues }

\* ------------------------------------------------------------------------
\* State
\* ------------------------------------------------------------------------
VARIABLES
  serial,           \* the byte source: "open" or "ended"
  chunks_in,        \* the chunks it has yielded, in order
  teleinfo_buffer,  \* ascii_to_frames: the chunks kept
  a2f,              \* the ascii_to_frames stream: "running" or "done"
  frame_queue,      \* frames the current chunk yields, not yet pulled
  frames_out,       \* the frame texts frame_to_teleinfo has received
  f2t,              \* the frame_to_teleinfo stream: "running" or "done"
  item,             \* the Reading yielded to main and not yet consumed
  readings_out,     \* the Readings frame_to_teleinfo has yielded
  stderr,           \* the errors frame_to_teleinfo has printed
  main,             \* the loop of main: "running", "done" or "panicked"
  discovery_sent,
  published,        \* the publish attempts of main, in order
  line,             \* validate_checksum: its argument
  line_ok,          \*   and its result, once called
  plan,             \* parse_teleinfo: how the frame text was written,
  eol,              \*   its line ending,
  text,             \*   the argument
  parsed,           \*   and the result, once called
  collected,        \* frame_to_teleinfo on the stream of that one frame
                    \*   text: the items collected, once run
  wire,             \* the bytes STX <text> ETX given to ascii_to_frames
  by_byte,          \*   the frames yielded one byte per chunk
  by_chunk,         \*   and as one chunk, once fed
  reading,          \* to_string: the Reading it is called on
  payload,          \*   and its result, once called
  reads             \* serial_stream: the results of uart_device.read so far

pure_vars ==
  << line, line_ok, plan, eol, text, parsed, collected, wire, by_byte,
     by_chunk, reading, payload, reads >>
pipeline_vars ==
  << serial, chunks_in, teleinfo_buffer, a2f, frame_queue, frames_out, f2t,
     item, readings_out, stderr, main, discovery_sent, published >>
line_vars == << line, line_ok >>
parse_vars == << plan, eol, text, parsed, collected >>
wire_vars == << wire, by_byte, by_chunk >>
fmt_vars == << reading, payload >>
vars == << pipeline_vars, line_vars, parse_vars, wire_vars, fmt_vars, reads >>

InitPipeline ==
  /\ serial = "open"
  /\ chunks_in = <<>>
  /\ teleinfo_buffer = <<>>
  /\ a2f = "running"
  /\ frame_queue = <<>>
  /\ frames_out = <<>>
  /\ f2t = "running"
  /\ item = <<>>
  /\ readings_out = <<>>
  /\ stderr = <<>>
  /\ main = "running"
  /\ discovery_sent = FALSE
  /\ published = <<>>

NoLine == /\ line = <<>> /\ line_ok = <<>>
NoText ==
  /\ plan = GoodPlan /\ eol = <<LF>> /\ text = <<>>
  /\ parsed = <<>> /\ collected = <<>>
NoWire == /\ wire = <<>> /\ by_byte = <<>> /\ by_chunk = <<>>
NoReading == /\ reading = SampleReading /\ payload = <<>> /\ reads = <<>>

\* ------------------------------------------------------------------------
\* The pipeline
\* ------------------------------------------------------------------------
\* the consumer is waiting on the whole chain: nothing yielded is pending
Pulling ==
  /\ main = "running" /\ item = <<>>
  /\ f2t = "running" /\ frame_queue = <<>>
  /\ a2f = "running"

\* serial_stream yields a chunk and ascii_to_frames runs its loop body on it
AsciiToFrames(value) ==
  /\ Pulling
  /\ serial = "open"
  /\ Len(chunks_in) < MaxChunks
  /\ value # SampleFrame =>
       Cardinality({ i \in 1..Len(chunks_in) : chunks_in[i] = value }) < MaxFaults
  /\ LET r == ascii_to_frames_chunk(teleinfo_buffer, value) IN
       /\ teleinfo_buffer' = r.buffer
       /\ frame_queue' = r.out
  /\ chunks_in' = Append(chunks_in, value)
  /\ UNCHANGED << serial, a2f, frames_out, f2t, item, readings_out, stderr,
                  main, discovery_sent, published, pure_vars >>

\* serial_stream: uart_device.read fails, the loop breaks, the stream ends
SerialEnd ==
  /\ Pulling
  /\ serial = "open"
  /\ serial' = "ended"
  /\ UNCHANGED << chunks_in, teleinfo_buffer, a2f, frame_queue, frames_out,
                  f2t, item, readings_out, stderr, main, discovery_sent,
                  published, pure_vars >>

\* ascii_stream.next() is None: the while loop and the stream end
AsciiToFramesEnd ==
  /\ Pulling
  /\ serial = "ended"
  /\ a2f' = "done"
  /\ UNCHANGED << serial, chunks_in, teleinfo_buffer, frame_queue, frames_out,
                  f2t, item, readings_out, stderr, main, discovery_sent,
                  published, pure_vars >>

\* frame_to_teleinfo with an empty Err arm
frame_to_teleinfo_silent(value) ==
  LET teleinfo == parse_teleinfo(value) IN
    IF teleinfo.ok
    THEN [yield |-> <<teleinfo.frame>>, eprintln |-> <<>>, break |-> FALSE]
    ELSE [yield |-> <<>>, eprintln |-> <<>>, break |-> FALSE]

\* frame_to_teleinfo leaving its loop in the Err arm
frame_to_teleinfo_break(value) ==
  LET teleinfo == parse_teleinfo(value) IN
    IF teleinfo.ok
    THEN [yield |-> <<teleinfo.frame>>, eprintln |-> <<>>, break |-> FALSE]
    ELSE [yield |-> <<>>, eprintln |-> <<teleinfo.err>>, break |-> TRUE]

\* frame_to_teleinfo yielding a default TeleinfoFrame in the Err arm
frame_to_teleinfo_default(value) ==
  LET teleinfo == parse_teleinfo(value) IN
    IF teleinfo.ok
    THEN [yield |-> <<teleinfo.frame>>, eprintln |-> <<>>, break |-> FALSE]
    ELSE [yield |-> <<NoFrame>>, eprintln |-> <<teleinfo.err>>, break |-> FALSE]

\* what frame_to_teleinfo does with one frame: the item yielded (none or one)
\* and the line printed on stderr (none or one)
frame_to_teleinfo(value) ==
  LET teleinfo == parse_teleinfo(value) IN
    IF teleinfo.ok
    THEN [yield |-> <<teleinfo.frame>>, eprintln |-> <<>>, break |-> FALSE]
    ELSE [yield |-> <<>>, eprintln |-> <<teleinfo.err>>, break |-> FALSE]

\* frame_to_teleinfo pulls the next frame and runs its loop body on it
FrameToTeleinfo ==
  /\ main = "running" /\ item = <<>>
  /\ f2t = "running"
  /\ frame_queue # <<>>
  /\ LET r == frame_to_teleinfo(Head(frame_queue)) IN
       /\ item' = r.yield
       /\ readings_out' = readings_out \o r.yield
       /\ stderr' = stderr \o r.eprintln
       /\ f2t' = IF r.break THEN "done" ELSE "running"
  /\ frames_out' = Append(frames_out, Head(frame_queue))
  /\ frame_queue' = Tail(frame_queue)
  /\ UNCHANGED << serial, chunks_in, teleinfo_buffer, a2f, main,
                  discovery_sent, published, pure_vars >>

\* frame_stream.next() is None: the while loop and the stream end
FrameToTeleinfoEnd ==
  /\ main = "running" /\ item = <<>>
  /\ f2t = "running"
  /\ a2f = "done"
  /\ f2t' = "done"
  /\ UNCHANGED << serial, chunks_in, teleinfo_buffer, a2f, frame_queue,
                  frames_out, item, readings_out, stderr, main,
                  discovery_sent, published, pure_vars >>

\* "teleinfo/"
TopicPrefix == <<116, 101, 108, 101, 105, 110, 102, 111, 47>>

\* format!("teleinfo/{}", value.adco), the topic of publish_teleinfo
teleinfo_topic(adco) == TopicPrefix \o adco

\* the state_topic written with the number parsed from adco
state_topic_numeric(adco) == TopicPrefix \o int_to_string(adco)

\* format!("teleinfo/{}", adco), the "state_topic" of the payload of
\* publish_sensor_discovery
state_topic(adco) == TopicPrefix \o adco

\* publish_discovery that goes on with the next sensor after a failed publish
publish_discovery_all(adco, failed) ==
  [ ok |-> failed = 0,
    state_topic |-> state_topic(adco),
    results |-> [s \in 1..MaxSensors |-> s # failed] ]

\* publish_discovery: the for loop over SENSOR_METADATA, left by `?` at the
\* first publish_sensor_discovery that returns Err. failed is the sensor whose
\* publish the MQTT client refuses, 0 when it refuses none; results are the
\* answers to the calls made, in order.
publish_discovery(adco, failed) ==
  [ ok |-> failed = 0,
    state_topic |-> state_topic(adco),
    results |-> [s \in 1..(IF failed = 0 THEN MaxSensors ELSE failed) |-> s # failed] ]

\* publish_teleinfo: value.to_string() is evaluated for the call of
\* client.publish and panics before it on a Reading that does not serialize;
\* sent says that client.publish was called, ok is its answer
publish_teleinfo(value, pub_ok) ==
  [ topic |-> teleinfo_topic(value.adco),
    sent |-> display_ok(value),
    ok |-> display_ok(value) /\ pub_ok ]

\* the body of the loop with `continue` in the Err arm of publish_discovery
main_iteration_skip(value, sent_before, failed, pub_ok) ==
  LET d == publish_discovery(value.adco, failed)
      p == publish_teleinfo(value, pub_ok)
      discovery == IF sent_before THEN <<>>
                   ELSE <<[kind |-> "discovery", adco |-> value.adco,
                           state_topic |-> d.state_topic, ok |-> d.ok,
                           results |-> d.results]>>
      skipped == ~sent_before /\ ~d.ok
  IN [ discovery_sent |-> (sent_before \/ d.ok),
       published |->
         IF skipped THEN discovery
         ELSE discovery \o
           <<[kind |-> "teleinfo", adco |-> value.adco, topic |-> p.topic,
              ok |-> p.ok, sent |-> p.sent, error_logged |-> (p.sent /\ ~p.ok)]>>,
       main |-> IF skipped \/ p.sent THEN "running" ELSE "panicked" ]

\* the body of `while let Some(value)` in main: discovery while it has not
\* succeeded, then publish_teleinfo; an Err of either is logged and the loop
\* goes on. A call of publish_discovery is recorded once, with the adco it is
\* given, the state_topic each of its payloads announces and the answers to
\* its sensor publishes.
main_iteration(value, sent_before, failed, pub_ok) ==
  LET d == publish_discovery(value.adco, failed)
      p == publish_teleinfo(value, pub_ok)
      discovery == IF sent_before THEN <<>>
                   ELSE <<[kind |-> "discovery", adco |-> value.adco,
                           state_topic |-> d.state_topic, ok |-> d.ok,
                           results |-> d.results]>>
  IN [ discovery_sent |-> (sent_before \/ d.ok),
       published |->
         discovery \o
           <<[kind |-> "teleinfo", adco |-> value.adco, topic |-> p.topic,
              ok |-> p.ok, sent |-> p.sent, error_logged |-> (p.sent /\ ~p.ok)]>>,
       main |-> IF p.sent THEN "running" ELSE "panicked" ]

\* one iteration of the while loop of main on the Reading pulled; failed and
\* pub_ok are the answers of the MQTT client
MainLoop(failed, pub_ok) ==
  /\ main = "running"
  /\ item # <<>>
  /\ LET r == main_iteration(item[1], discovery_sent, failed, pub_ok) IN
       /\ discovery_sent' = r.discovery_sent
       /\ published' = published \o r.published
       /\ main' = r.main
  /\ item' = <<>>
  /\ UNCHANGED << serial, chunks_in, teleinfo_buffer, a2f, frame_queue,
                  frames_out, f2t, readings_out, stderr, pure_vars >>

\* teleinfo_parsed_frames_stream.next() is None: main leaves its loop
MainEnd ==
  /\ main = "running"
  /\ item = <<>>
  /\ f2t = "done"
  /\ main' = "done"
  /\ UNCHANGED << serial, chunks_in, teleinfo_buffer, a2f, frame_queue,
                  frames_out, f2t, item, readings_out, stderr,
                  discovery_sent, published, pure_vars >>

\* in the pipeline the MQTT client refuses the first sensor or none
MainLoopAny == \E failed \in {0, 1}, pub_ok \in BOOLEAN : MainLoop(failed, pub_ok)

\* the MQTT client refuses any one sensor or none
MainLoopAnySensor ==
  \E failed \in 0..MaxSensors, pub_ok \in BOOLEAN : MainLoop(failed, pub_ok)

AsciiToFramesAny == \E value \in Chunks : AsciiToFrames(value)

Init == InitPipeline /\ NoLine /\ NoText /\ NoWire /\ NoReading

Next ==
  \/ AsciiToFramesAny
  \/ SerialEnd
  \/ FrameToTeleinfo
  \/ MainLoopAny
  \/ AsciiToFramesEnd
  \/ FrameToTeleinfoEnd
  \/ MainEnd

Spec == Init /\ [][Next]_vars

\* FrameToTeleinfo is enabled exactly when its guard holds: the step always
\* extends frames_out
FrameToTeleinfoEnabled ==
  main = "running" /\ item = <<>> /\ f2t = "running" /\ frame_queue # <<>>

\* The runtime keeps polling the task of main, and each poll drives the whole
\* chain: every step of the pipeline that stays possible is taken.  Nothing
\* is assumed of the byte source.  The last conjunct is weak fairness of
\* FrameToTeleinfo, written with its guard in place of ENABLED.
LiveSpec ==
  /\ Spec
  /\ WF_vars(MainLoopAny)
  /\ WF_vars(AsciiToFramesEnd)
  /\ WF_vars(FrameToTeleinfoEnd)
  /\ WF_vars(MainEnd)
  /\ ([]<>(~FrameToTeleinfoEnabled) \/ []<><<FrameToTeleinfo>>_vars)

\* ------------------------------------------------------------------------
\* validate_checksum on its own
\* ------------------------------------------------------------------------
InitLine ==
  /\ line \in BoundedSeqs(LineAlphabet, MaxLineLen)
  /\ line_ok = <<>>
  /\ InitPipeline /\ NoText /\ NoWire /\ NoReading

ValidateChecksum ==
  /\ line_ok = <<>>
  /\ line_ok' = <<validate_checksum(line)>>
  /\ UNCHANGED << line, pipeline_vars, parse_vars, wire_vars, fmt_vars, reads >>

SpecLine == InitLine /\ [][ValidateChecksum]_vars

\* ------------------------------------------------------------------------
\* parse_teleinfo on its own
\* ------------------------------------------------------------------------
InitParse ==
  /\ plan \in PlansUpTo(MaxAltered)
  /\ eol \in LineEndings
  /\ text = frame_text(plan, eol)
  /\ parsed = <<>>
  /\ collected = <<>>
  /\ InitPipeline /\ NoLine /\ NoWire /\ NoReading

ParseTeleinfo ==
  /\ parsed = <<>>
  /\ parsed' = <<parse_teleinfo(text)>>
  /\ UNCHANGED << plan, eol, text, collected, pipeline_vars, line_vars, wire_vars,
                  fmt_vars, reads >>

SpecParse == InitParse /\ [][ParseTeleinfo]_vars

\* parse_teleinfo on frames with repeated and unknown labels
InitDup ==
  /\ plan \in DupPlansUpTo(MaxDup)
  /\ eol \in LineEndings
  /\ text = frame_text(plan, eol)
  /\ parsed = <<>>
  /\ collected = <<>>
  /\ InitPipeline /\ NoLine /\ NoWire /\ NoReading

SpecDup == InitDup /\ [][ParseTeleinfo]_vars

\* ------------------------------------------------------------------------
\* frame_to_teleinfo on a stream of one frame text, collected
\* ------------------------------------------------------------------------
\* frame_to_teleinfo(stream::iter(vec![text])).collect::<Vec<_>>()
Collect ==
  /\ collected = <<>>
  /\ collected' = <<frame_to_teleinfo(text).yield>>
  /\ UNCHANGED << plan, eol, text, parsed, pipeline_vars, line_vars, wire_vars,
                  fmt_vars, reads >>

SpecCollect == InitParse /\ [][Collect]_vars

\* ------------------------------------------------------------------------
\* ascii_to_frames on the same bytes, chunked two ways
\* ------------------------------------------------------------------------
one_byte_chunks(bytes) == [k \in 1..Len(bytes) |-> <<bytes[k]>>]

InitWire ==
  /\ wire \in {<<STX>> \o t \o <<ETX>> :
                 t \in BoundedSeqs(WireAlphabet, MaxWireLen)
                         \cup {data_line(L_ADCO, SP, SampleValues[1])}}
  /\ by_byte = <<>>
  /\ by_chunk = <<>>
  /\ InitPipeline /\ NoLine /\ NoText /\ NoReading

\* the two streams are run to their end and their frames collected; <<f>>
\* wraps the result so that "not fed yet" differs from "no frame"
FeedWire ==
  /\ by_byte = <<>>
  /\ by_byte' = <<ascii_to_frames_all(<<>>, one_byte_chunks(wire), <<>>)>>
  /\ by_chunk' = <<ascii_to_frames_all(<<>>, <<wire>>, <<>>)>>
  /\ UNCHANGED << wire, pipeline_vars, line_vars, parse_vars, fmt_vars, reads >>

SpecWire == InitWire /\ [][FeedWire]_vars

\* ------------------------------------------------------------------------
\* to_string() on its own
\* ------------------------------------------------------------------------
InitFmt ==
  /\ reading \in Readings
  /\ payload = <<>>
  /\ reads = <<>>
  /\ InitPipeline /\ NoLine /\ NoText /\ NoWire

to_string ==
  /\ payload = <<>>
  /\ payload' = <<fmt(reading)>>
  /\ UNCHANGED << reading, pipeline_vars, line_vars, parse_vars, wire_vars, reads >>

SpecFmt == InitFmt /\ [][to_string]_vars

\* ------------------------------------------------------------------------
\* serial_stream on its own
\* ------------------------------------------------------------------------
\* the size of `buffer`
BufferLen == 1

\* what uart_device.read(&mut buffer) may return: Ok(bytes_read) with the
\* buffer as the read left it, or an error
ReadResults ==
  { [ok |-> TRUE, bytes_read |-> 0, buffer |-> <<0>>],
    [ok |-> TRUE, bytes_read |-> BufferLen, buffer |-> <<65>>],
    [ok |-> TRUE, bytes_read |-> BufferLen, buffer |-> <<STX>>],
    [ok |-> FALSE, bytes_read |-> 0, buffer |-> <<0>>] }

\* serial_stream yielding whatever the read returned, as buffer[..bytes_read]
serial_stream_read_any(res) ==
  IF res.ok
  THEN [yield |-> <<SubSeq(res.buffer, 1, res.bytes_read)>>, break |-> FALSE]
  ELSE [yield |-> <<>>, break |-> TRUE]

\* the match on the result of the read: the chunk yielded (none or one) and
\* whether the loop is left
serial_stream_read(res) ==
  IF res.ok
  THEN IF res.bytes_read > 0
       THEN [yield |-> <<res.buffer>>, break |-> FALSE]
       ELSE [yield |-> <<>>, break |-> FALSE]
  ELSE [yield |-> <<>>, break |-> TRUE]

\* one iteration of the loop of serial_stream
SerialRead(res) ==
  /\ serial = "open"
  /\ Len(reads) < MaxReads
  /\ reads' = Append(reads, res)
  /\ LET r == serial_stream_read(res) IN
       /\ chunks_in' = chunks_in \o r.yield
       /\ serial' = IF r.break THEN "ended" ELSE "open"
  /\ UNCHANGED << teleinfo_buffer, a2f, frame_queue, frames_out, f2t, item,
                  readings_out, stderr, main, discovery_sent, published,
                  line_vars, parse_vars, wire_vars, fmt_vars >>

SerialReadAny == \E res \in ReadResults : SerialRead(res)

SpecSerial == Init /\ [][SerialReadAny]_vars

\* ------------------------------------------------------------------------
\* ascii_to_frames on chunks of one or two characters
\* ------------------------------------------------------------------------
\* "x", "A", "D", "C", "O", "AD", "CO"
FeedChunks == { <<120>>, <<65>>, <<68>>, <<67>>, <<79>>, <<65, 68>>, <<67, 79>> }

\* the stream is given one more chunk; frame_queue holds the frames this
\* chunk yields and frames_out all the frames yielded so far
Feed(value) ==
  /\ Len(chunks_in) < MaxFeeds
  /\ chunks_in' = Append(chunks_in, value)
  /\ LET r == ascii_to_frames_chunk(teleinfo_buffer, value) IN
       /\ teleinfo_buffer' = r.buffer
       /\ frame_queue' = r.out
       /\ frames_out' = frames_out \o r.out
  /\ UNCHANGED << serial, a2f, f2t, item, readings_out, stderr, main,
                  discovery_sent, published, pure_vars >>

FeedAny == \E value \in FeedChunks : Feed(value)

SpecFeed == Init /\ [][FeedAny]_vars

\* ------------------------------------------------------------------------
\* the loop of main on a stream of Readings
\* ------------------------------------------------------------------------
\* a Reading whose adco is not a number, as NonNumericFrame gives
NonNumericReading == [SampleReading EXCEPT !.adco = <<65, 66, 67>>]

\* a Reading of another meter
OtherReading == [SampleReading EXCEPT !.adco = AltValues[1], !.papp = AltValues[8]]

StreamReadings == {SampleReading, OtherReading, NonNumericReading}

\* teleinfo_parsed_frames_stream.next() yields Some(value)
StreamNext(value) ==
  /\ main = "running"
  /\ item = <<>>
  /\ Len(readings_out) < MaxPulled
  /\ item' = <<value>>
  /\ readings_out' = Append(readings_out, value)
  /\ UNCHANGED << serial, chunks_in, teleinfo_buffer, a2f, frame_queue,
                  frames_out, f2t, stderr, main, discovery_sent, published,
                  pure_vars >>

StreamNextAny == \E value \in StreamReadings : StreamNext(value)

SpecMain == Init /\ [][StreamNextAny \/ MainLoopAnySensor]_vars

\* ------------------------------------------------------------------------
\* Vocabulary of the properties, stated without the operators of the code
\* ------------------------------------------------------------------------
Separators == {SP, TAB}

\* the line has a last separator, a byte follows it, and that byte is the
\* protocol's checksum of what precedes the separator
checksum_rule(l) ==
  \E p \in 1..Len(l) :
    /\ l[p] \in Separators
    /\ \A q \in (p + 1)..Len(l) : l[q] \notin Separators
    /\ p < Len(l)
    /\ l[p + 1] = teleinfo_checksum(SubSeq(l, 1, p - 1))

\* the lines of a frame text that carry a data set: trimmed, not blank and
\* not starting with a control byte
data_sets(f) ==
  LET ls == lines(f)
      kept == { i \in 1..Len(ls) :
                  LET t == trim(ls[i]) IN Len(t) > 0 /\ t[1] \notin {STX, ETX} }
  IN { trim(ls[i]) : i \in kept }

\* the data set t starts with the label, followed by white space
has_label(t, label) ==
  /\ Len(t) > Len(label)
  /\ SubSeq(t, 1, Len(label)) = label
  /\ t[Len(label) + 1] \in Whitespace

\* all ten labels are there and every data set has a valid checksum
frame_complete(f) ==
  /\ \A t \in data_sets(f) : checksum_rule(t)
  /\ \A k \in 1..Len(Labels) : \E t \in data_sets(f) : has_label(t, Labels[k])

\* the value a checksum-valid data set gives its label: what stands between
\* the label and the checksum, white space removed
value_in(t, label) == trim(SubSeq(t, Len(label) + 1, Len(t) - 2))

field_of(r, k) ==
  CASE k = 1 -> r.adco [] k = 2 -> r.optarif [] k = 3 -> r.isousc
    [] k = 4 -> r.base [] k = 5 -> r.ptec [] k = 6 -> r.iinst
    [] k = 7 -> r.imax [] k = 8 -> r.papp [] k = 9 -> r.hhphc
    [] k = 10 -> r.motdetat

C3_EndsOnlyWithByteSource ==
  /\ [](a2f = "done" => serial = "ended")
  /\ [](f2t = "done" => a2f = "done")
  /\ [](main = "done" => f2t = "done")
  /\ [][ stderr' # stderr =>
           a2f' = "running" /\ f2t' = "running" /\ main' = "running" ]_vars
  /\ (serial = "ended" ~> main # "running")

\* a rejected frame, then a Reading, then the end of the byte source and of
\* the loop
C3_Witness ==
  /\ main = "done" /\ f2t = "done" /\ a2f = "done" /\ serial = "ended"
  /\ \E i \in 1..Len(frames_out) :
       /\ frames_out[i] = BadChecksumFrame
       /\ \E j \in (i + 1)..Len(frames_out) : frames_out[j] = SampleFrame
  /\ readings_out # <<>>

\* ------------------------------------------------------------------------
\* C8  The Readings yielded are the parse results of the frame texts that
\*     parse, in the order of the frame texts; a frame text that does not
\*     parse adds nothing.  Stated of the whole run, when the loop of main
\*     has stopped (the byte source may end after any chunk).
\* ------------------------------------------------------------------------
RECURSIVE parsed_readings(_)
parsed_readings(fs) ==
  IF Len(fs) = 0 THEN <<>>
  ELSE LET r == parse_teleinfo(Head(fs)) IN
    (IF r.ok THEN <<r.frame>> ELSE <<>>) \o parsed_readings(Tail(fs))

C8_ReadingsInFrameOrder ==
  main # "running" => readings_out = parsed_readings(frames_out)

C8_Witness ==
  /\ main # "running"
  /\ Len(readings_out) = 2
  /\ readings_out[1] # readings_out[2]
  /\ stderr # <<>>

\* ------------------------------------------------------------------------
\* C10 (as claimed) while no 0x02 has been delivered, no frame text is
\*     produced and no error is reported.
\* ------------------------------------------------------------------------
C10_NothingBeforeFirstSync ==
  (\A i \in 1..Len(chunks_in) : \A k \in 1..Len(chunks_in[i]) : chunks_in[i][k] # STX)
    => /\ frame_queue = <<>>
       /\ frames_out = <<>>
       /\ stderr = <<>>

C5_ValidIffChecksumRule ==
  line_ok # <<>> =>
    /\ line_ok[1] <=> checksum_rule(line)
    /\ line = <<>> => ~line_ok[1]
    /\ (\A p \in 1..Len(line) : line[p] \notin Separators) => ~line_ok[1]
    /\ (line # <<>> /\ line[Len(line)] \in Separators) => ~line_ok[1]

\* a valid line with two separators: the last one counts
C5_Witness ==
  /\ line_ok = <<TRUE>>
  /\ Cardinality({ p \in 1..Len(line) : line[p] \in Separators }) >= 2

\* ------------------------------------------------------------------------
\* C6  (as claimed) a frame text whose lines are LABEL<sep>VALUE<sep>C with
\*     C the protocol's checksum, any byte of 0x20..0x5F, and that holds the
\*     ten labels is accepted, and the ten fields are the VALUE strings.
\* ------------------------------------------------------------------------
C6_WellFormedFrameAccepted ==
  (parsed # <<>> /\ \A k \in 1..Len(Labels) : plan[k] \in {"good", "tab", "space"}) =>
    /\ parsed[1].ok
    /\ \A k \in 1..Len(Labels) :
         field_of(parsed[1].frame, k) =
           IF plan[k] = "space" THEN SpaceChecksumValues[k] ELSE SampleValues[k]

\* ------------------------------------------------------------------------
\* C7  If every data set of the frame text passes the checksum and one of
\*     the ten labels is absent, parse_teleinfo returns an error naming an
\*     absent label and no Reading; without its MOTDETAT line only, the
\*     sample frame gives the error naming MOTDETAT.
\* ------------------------------------------------------------------------
absent(f, k) == \A t \in data_sets(f) : ~has_label(t, Labels[k])

C7_MissingLabelNamed ==
  (/\ parsed # <<>>
   /\ \A t \in data_sets(text) : checksum_rule(t)
   /\ \E k \in 1..Len(Labels) : absent(text, k)) =>
    /\ ~parsed[1].ok
    /\ parsed[1].frame = NoFrame
    /\ parsed[1].err.msg = "Missing "
    /\ \E k \in 1..Len(Labels) : absent(text, k) /\ parsed[1].err.arg = Labels[k]
    /\ plan = [GoodPlan EXCEPT ![10] = "absent"] => parsed[1].err.arg = L_MOTDETAT

C7_Witness ==
  /\ parsed # <<>>
  /\ plan = [GoodPlan EXCEPT ![10] = "absent"]
  /\ parsed[1].err = [msg |-> "Missing ", arg |-> L_MOTDETAT]

\* ------------------------------------------------------------------------
\* C9  (as claimed) the bytes 0x02 <frame text> 0x03 give the same frame
\*     texts one byte per chunk and as one chunk.
\* ------------------------------------------------------------------------
C9_ChunkingIndependent == by_byte # <<>> => by_byte = by_chunk

\* ------------------------------------------------------------------------
\* C11 (as claimed) to_string() of any Reading is a JSON object whose keys
\*     are exactly the ten field names, each with a "raw" and a "value".
\* ------------------------------------------------------------------------
C11_TenKeys ==
  payload # <<>> =>
    /\ payload[1].ok
    /\ Len(payload[1].entries) = Len(Labels)
    /\ { payload[1].entries[i].key : i \in 1..Len(payload[1].entries) }
         = { Labels[k] : k \in 1..Len(Labels) }

\* ------------------------------------------------------------------------
\* C12 In what to_string() returns, each "raw" is the field unchanged; the
\*     "value" of ADCO, ISOUSC, BASE, IINST, IMAX and PAPP is the decimal
\*     text of the integer the field denotes, without leading zeros; the
\*     "value" of OPTARIF and HHPHC is the field; the "value" of PTEC is its
\*     first two characters.  "012345678901" gives 12345678901 and "TH.."
\*     gives "TH".
\* ------------------------------------------------------------------------
NumericKeys == {L_ADCO, L_ISOUSC, L_BASE, L_IINST, L_IMAX, L_PAPP}

unsigned(s) == IF Len(s) > 0 /\ s[1] \in {PLUS, MINUS} THEN Tail(s) ELSE s

\* v is the decimal text of the integer written raw: the digits of raw
\* after its leading zeros, with the sign of a negative number
is_decimal_of(v, raw) ==
  LET rd == unsigned(raw)
      vd == unsigned(v)
  IN /\ Len(vd) > 0
     /\ \A i \in 1..Len(vd) : vd[i] \in Digits
     /\ Len(vd) > 1 => vd[1] # 48
     /\ \E n \in 0..(Len(rd) - 1) :
          /\ \A i \in 1..n : rd[i] = 48
          /\ SubSeq(rd, n + 1, Len(rd)) = vd
     /\ v[1] # PLUS
     /\ v[1] = MINUS <=> (raw[1] = MINUS /\ vd # <<48>>)

C12_RawAndValue ==
  (payload # <<>> /\ payload[1].ok) =>
    /\ \A i \in 1..Len(payload[1].entries) :
         LET e == payload[1].entries[i]
             k == CHOOSE x \in 1..Len(Labels) : Labels[x] = e.key
         IN /\ e.raw = field_of(reading, k)
            /\ e.key \in NumericKeys => ~e.quoted /\ is_decimal_of(e.value, e.raw)
            /\ e.key \in {L_OPTARIF, L_HHPHC} => e.quoted /\ e.value = e.raw
            /\ e.key = L_PTEC =>
                 /\ e.quoted /\ Len(e.value) = 2
                 /\ e.value[1] = e.raw[1] /\ e.value[2] = e.raw[2]
    /\ \A key \in NumericKeys \cup {L_OPTARIF, L_HHPHC, L_PTEC} :
         \E i \in 1..Len(payload[1].entries) : payload[1].entries[i].key = key
    /\ reading = SampleReading =>
         /\ payload[1].entries[1] =
              Entry(L_ADCO, SampleValues[1], <<49,50,51,52,53,54,55,56,57,48,49>>, FALSE)
         /\ payload[1].entries[5] = Entry(L_PTEC, SampleValues[5], <<84, 72>>, TRUE)

C12_Witness ==
  /\ payload # <<>> /\ payload[1].ok
  /\ reading.adco = SampleValues[1]
  /\ reading.papp = <<MINUS, 53>>
  /\ reading.ptec = SampleValues[5]

\* ------------------------------------------------------------------------
\* C13 (as claimed) frame_to_teleinfo on the one frame text of
\*     test_frame_to_teleinfo, whose ADCO line is "ADCO 012345678901 B",
\*     yields exactly one Reading, with the values of the sample frame.
\* ------------------------------------------------------------------------
TestFramePlan == [GoodPlan EXCEPT ![1] = "B"]

C13_TestFrameYieldsReading ==
  (collected # <<>> /\ plan = TestFramePlan /\ eol = <<LF>>) =>
    collected[1] = <<SampleReading>>

\* ------------------------------------------------------------------------
\* C14 serial_stream yields only chunks of at least one byte: they are the
\*     bytes of the reads that returned one, in order; a read that returns
\*     zero bytes yields nothing and leaves the stream running; the stream
\*     ends at the first read error and yields nothing after it.
\* ------------------------------------------------------------------------
RECURSIVE bytes_read_before_error(_)
bytes_read_before_error(rs) ==
  IF Len(rs) = 0 \/ ~Head(rs).ok THEN <<>>
  ELSE (IF Head(rs).bytes_read > 0 THEN <<Head(rs).buffer>> ELSE <<>>)
         \o bytes_read_before_error(Tail(rs))

is_topic_of(t, adco) ==
  /\ Len(t) = 9 + Len(adco)
  /\ SubSeq(t, 1, 9) = <<116, 101, 108, 101, 105, 110, 102, 111, 47>>
  /\ \A i \in 1..Len(adco) : t[9 + i] = adco[i]

C15_TopicIsStateTopic ==
  \A i \in 1..Len(published) :
    /\ published[i].kind = "teleinfo" => is_topic_of(published[i].topic, published[i].adco)
    /\ published[i].kind = "discovery" =>
         is_topic_of(published[i].state_topic, published[i].adco)

\* a discovery that fails, one that succeeds, and Readings published
C15_Witness ==
  /\ Len(published) >= 4
  /\ published[1].kind = "discovery" /\ ~published[1].ok
  /\ \E i \in 1..Len(published) : published[i].kind = "discovery" /\ published[i].ok
  /\ \E i \in 1..Len(published) :
       published[i].kind = "teleinfo" /\ published[i].adco = SampleValues[1]

\* ------------------------------------------------------------------------
\* C16 (as claimed) whatever the chunking, when "ADCO" is in the buffer at
\*     a position other than 0, the frame text emitted is the buffered text
\*     before that position and the buffer kept is the text from that
\*     position on (followed by the chunk that arrives); so every frame
\*     text emitted after the first begins with "ADCO".
\* ------------------------------------------------------------------------
\* the positions (counted from 0) at which "ADCO" stands in t
adco_positions(t) ==
  { p \in 0..(Len(t) - 4) : SubSeq(t, p + 1, p + 4) = L_ADCO }

begins_with_adco(t) == Len(t) >= 4 /\ SubSeq(t, 1, 4) = L_ADCO

C16_SplitAtAdco ==
  [][ chunks_in' # chunks_in =>
        LET B == join(teleinfo_buffer)
            value == chunks_in'[Len(chunks_in')]
        IN /\ \A p \in adco_positions(B) :
                (p # 0 /\ adco_positions(B) = {p}) =>
                  /\ frame_queue' = <<SubSeq(B, 1, p)>>
                  /\ join(teleinfo_buffer') = SubSeq(B, p + 1, Len(B)) \o value
           /\ \A i \in 2..Len(frames_out') : begins_with_adco(frames_out'[i])
    ]_vars

\* ------------------------------------------------------------------------
\* C17 (as claimed) a frame text is emitted only when "ADCO" is found at a
\*     position other than 0 of the buffer; "ADCO" at the very start of the
\*     buffer emits nothing, and no empty frame text is ever emitted.
\* ------------------------------------------------------------------------
C17_NoEmptyFrame ==
  [][ chunks_in' # chunks_in =>
        /\ frame_queue' # <<>> =>
             \E p \in adco_positions(join(teleinfo_buffer)) : p # 0
        /\ \A i \in 1..Len(frame_queue') : frame_queue'[i] # <<>>
    ]_vars

\* ------------------------------------------------------------------------
\* C18 (as claimed) every Reading frame_to_teleinfo yields can be
\*     serialized: to_string() does not panic and the loop of main is never
\*     aborted while it builds the payload.
\* ------------------------------------------------------------------------
C18_ReadingsSerialize ==
  /\ main # "panicked"
  /\ \A i \in 1..Len(readings_out) : display_ok(readings_out[i])

\* ------------------------------------------------------------------------
\* C19 ascii_to_frames neither loses nor duplicates text: the frame texts
\*     emitted so far (received by frame_to_teleinfo or still to be pulled),
\*     followed by the buffer, are the valid-text chunks received so far,
\*     in order.
\* ------------------------------------------------------------------------
is_text(chunk) == \A k \in 1..Len(chunk) : chunk[k] < 128

RECURSIVE text_received(_)
text_received(chunks) ==
  IF Len(chunks) = 0 THEN <<>>
  ELSE (IF is_text(Head(chunks)) THEN Head(chunks) ELSE <<>>)
         \o text_received(Tail(chunks))

C19_NoTextLostOrDuplicated ==
  join(frames_out) \o join(frame_queue) \o join(teleinfo_buffer)
    = text_received(chunks_in)

\* two frame texts emitted, one of them not empty, with a chunk that is not
\* text among those received
C19_Witness ==
  /\ \E i \in 1..Len(chunks_in) : ~is_text(chunks_in[i])
  /\ \E i \in 1..Len(frames_out) : frames_out[i] # <<>>
  /\ \E i \in 1..Len(frames_out) : frames_out[i] = <<>>
  /\ frame_queue # <<>>

\* ------------------------------------------------------------------------
\* C20 A chunk that is not valid text is dropped alone: handling it emits
\*     no frame text, leaves the buffer as it was, and leaves the stream
\*     running for the next chunk.
\* ------------------------------------------------------------------------
C20_InvalidChunkDropped ==
  [][ (chunks_in' # chunks_in /\ ~is_text(chunks_in'[Len(chunks_in')])) =>
        /\ frame_queue' = <<>>
        /\ frames_out' = frames_out
        /\ teleinfo_buffer' = teleinfo_buffer
        /\ a2f' = "running" /\ f2t' = "running" /\ main' = "running"
    ]_vars

\* the chunk that is not text arrives when four chunks are buffered, and
\* the chunk after it is processed: it emits the frame texts
C20_Witness ==
  \E i \in 5..(Len(chunks_in) - 1) :
    /\ ~is_text(chunks_in[i])
    /\ \A j \in 1..(i - 1) : is_text(chunks_in[j])
    /\ Len(chunks_in) = i + 1
    /\ frame_queue # <<>>

\* ------------------------------------------------------------------------
\* C21 Each field of the Reading parse_teleinfo returns is the value of the
\*     last line of the frame text that starts with the field's label: a
\*     later line with the same label replaces the earlier one, and lines
\*     with other labels change nothing; the frames here, all their lines
\*     checksum-valid and the ten labels there, are accepted.
\* ------------------------------------------------------------------------
\* the numbers of the trimmed lines ls that start with the label
lines_with(ls, label) == { i \in 1..Len(ls) : has_label(ls[i], label) }

\* the lines of the frame text, each trimmed
trimmed_lines(f) == LET ls == lines(f) IN [i \in 1..Len(ls) |-> trim(ls[i])]

C21_LastLabelWins ==
  parsed # <<>> =>
    LET ls == trimmed_lines(text) IN
      /\ parsed[1].ok
      /\ \A k \in 1..Len(Labels) :
           LET occ == lines_with(ls, Labels[k]) IN
             /\ occ # {}
             /\ \E i \in occ :
                  /\ \A j \in occ : j <= i
                  /\ field_of(parsed[1].frame, k) = value_in(ls[i], Labels[k])

\* ADCO is given three times, the last at the end of the frame text and the
\* sample value in the middle, and a line HCHC stands in the frame
C21_Witness ==
  /\ parsed # <<>>
  /\ plan = [GoodPlan EXCEPT ![1] = "dup_first", ![9] = "extra"]
  /\ parsed[1].ok
  /\ parsed[1].frame.adco = SampleValues[1]
  /\ lines_with(trimmed_lines(text), L_HCHC) # {}

\* ------------------------------------------------------------------------
\* C22 While no discovery has succeeded, each Reading the main loop pulls
\*     gets a discovery attempt, just before its own publish; an attempt
\*     stops at the first sensor whose publish fails, and then
\*     discovery_sent stays false; after the first attempt that succeeds
\*     for all sensors no discovery is published again.
\* ------------------------------------------------------------------------
is_discovery(r) == r.kind = "discovery"
is_teleinfo(r) == r.kind = "teleinfo"

\* the Readings the loop of main has pulled and dealt with
pulled == SubSeq(readings_out, 1, Len(readings_out) - Len(item))

C22_DiscoveryUntilSuccess ==
  /\ \A j \in 1..Len(published) : is_teleinfo(published[j]) =>
       ( (j > 1 /\ is_discovery(published[j - 1]))
         <=> ~\E i \in 1..(j - 2) : is_discovery(published[i]) /\ published[i].ok )
  /\ \A i \in 1..Len(published) : is_discovery(published[i]) =>
       /\ i < Len(published)
       /\ is_teleinfo(published[i + 1])
       /\ published[i + 1].adco = published[i].adco
       /\ published[i].results # <<>>
       /\ Len(published[i].results) <= MaxSensors
       /\ \A s \in 1..(Len(published[i].results) - 1) : published[i].results[s]
       /\ published[i].ok <=>
            /\ Len(published[i].results) = MaxSensors
            /\ \A s \in 1..MaxSensors : published[i].results[s]
  /\ discovery_sent <=>
       \E i \in 1..Len(published) : is_discovery(published[i]) /\ published[i].ok

\* an attempt stopped at the first sensor, one stopped at the second, one
\* that succeeded, and a Reading published after it without discovery
C22_Witness ==
  /\ Len(published) = 2 * MaxPulled
  /\ published[1].kind = "discovery" /\ published[1].results = <<FALSE>>
  /\ published[3].kind = "discovery" /\ published[3].results = <<TRUE, FALSE>>
  /\ ~discovery_sent

\* ------------------------------------------------------------------------
\* C23 Every Reading the main loop pulls gets exactly one call of
\*     publish_teleinfo, in order, whatever discovery and the earlier
\*     publishes answered; a publish the client refuses is logged and the
\*     loop stays running for the next Reading.
\* ------------------------------------------------------------------------
C23_OnePublishPerReading ==
  LET tele == SelectSeq(published, is_teleinfo) IN
    /\ Len(tele) = Len(pulled)
    /\ \A i \in 1..Len(tele) :
         /\ tele[i].adco = pulled[i].adco
         /\ tele[i].error_logged <=> (tele[i].sent /\ ~tele[i].ok)
    /\ (\A i \in 1..Len(tele) : tele[i].sent) => main = "running"

\* a Reading published after a refused discovery and a refused publish
C23_Witness ==
  /\ Len(pulled) = MaxPulled /\ main = "running"
  /\ published[1].kind = "discovery" /\ ~published[1].ok
  /\ published[2].kind = "teleinfo" /\ published[2].sent /\ ~published[2].ok
  /\ published[Len(published)].kind = "teleinfo" /\ published[Len(published)].ok

====
